---- MODULE Spec2Model ----
(***************************************************************************)
(* Model of sd_task/inference_task_runner/download_model.py: the model     *)
(* resolution and caching core.  One process runs check_and_prepare_models *)
(* over a task argument set; each slot goes through                        *)
(* check_and_download_model_by_name, which dispatches to the URL fetcher   *)
(* (check_and_download_external_model) or to the named fetcher             *)
(* (check_and_download_hf_model).  The URL fetcher is modelled one system  *)
(* call at a time, over a filesystem cache shared by all invocations.      *)
(*                                                                         *)
(* Every string-like value (identifier, path, proxy policy, None) is a     *)
(* tuple of strings, so that any two of them can be compared.              *)
(***************************************************************************)
EXTENDS Integers, Sequences, FiniteSets, TLC

VARIABLES
    proc,        \* per invocation: program counter, arguments, locals, results
    dirs,        \* filesystem: the directories that exist under the external cache
    files,       \* filesystem: file path -> content, or NoFile
    downloaded   \* history: URL identifiers whose download once completed

vars == <<proc, dirs, files, downloaded>>

----------------------------------------------------------------------------
(* Bounds and program constants *)

\* Longest response body the server sends, in bytes.
MaxBodyLen == 2

\* resp.stream(1024): the most bytes one chunk carries.
ChunkSize == 1024

Bytes == {0, 1}

Procs == {1, 2}

\* The single-threaded program of the specification: one invocation at a time.
SeqProcs == {1}

----------------------------------------------------------------------------
(* Values *)

None == <<"None">>

NoFile == <<-1>>

\* Identifiers: <<scheme, host, path>> of the string.
UrlA == <<"https", "example.com", "/model.bin">>
UrlB == <<"http", "cdn.example.org", "/lora.safetensors">>
NameA == <<"", "", "my-org/my-model">>
NoHost == <<"https", "", "">>

Idents == {UrlA, UrlB, NameA, NoHost}

HfCacheDir == "hf_cache"
ExternalCacheDir == "external_cache"

\* Proxy policies: <<host, port, username, password>>, or None.
ProxyNoHost == <<"", "8080", "", "">>
ProxyPlain == <<"proxy.local", "8080", "", "">>
ProxyUserOnly == <<"proxy.local", "8080", "user", "">>
ProxyPassOnly == <<"proxy.local", "8080", "", "secret">>
ProxyAuth == <<"proxy.local", "8080", "user", "secret">>

Proxies == {None, ProxyNoHost, ProxyPlain, ProxyUserOnly, ProxyPassOnly, ProxyAuth}

Host(proxy) == proxy[1]
Port(proxy) == proxy[2]
Username(proxy) == proxy[3]
Password(proxy) == proxy[4]

\* The loaders check_and_prepare_models hands down.
ModelMixinFromPretrained == "ModelMixin.from_pretrained"
LoraStateDict == "LoraLoaderMixin.lora_state_dict"
LoadTextualInversion == "load_textual_inversion_state_dicts"

Min(a, b) == IF a < b THEN a ELSE b

----------------------------------------------------------------------------
(* Task argument set: base_model, vae, controlnet, lora, textual_inversion *)

Slots == 1..5

\* controlnet and lora are wrapper objects with a model field.
Wrapper(m) == <<"obj">> \o m
WrapperModel(w) == Tail(w)

TaskArgs(base, vae, cn, lora, ti) ==
    [base_model |-> base, vae |-> vae, controlnet |-> cn, lora |-> lora,
     textual_inversion |-> ti]

SlotField(task, s) ==
    CASE s = 1 -> task.base_model
      [] s = 2 -> task.vae
      [] s = 3 -> task.controlnet
      [] s = 4 -> task.lora
      [] s = 5 -> task.textual_inversion

\* The `is not None` tests of check_and_prepare_models; base_model has none.
SlotPresent(task, s) == s = 1 \/ SlotField(task, s) # None

\* The identifier a slot hands to check_and_download_model_by_name.
SlotIdent(task, s) ==
    IF s \in {3, 4} THEN WrapperModel(SlotField(task, s)) ELSE SlotField(task, s)

\* The assignment of the resolved reference back into the slot.
SetSlot(task, s, r) ==
    CASE s = 1 -> [task EXCEPT !.base_model = r]
      [] s = 2 -> [task EXCEPT !.vae = r]
      [] s = 3 -> [task EXCEPT !.controlnet = Wrapper(r)]
      [] s = 4 -> [task EXCEPT !.lora = Wrapper(r)]
      [] s = 5 -> [task EXCEPT !.textual_inversion = r]

\* Mutant: every slot is given the base-model loader.
LoaderFor_AlwaysBase(s) == ModelMixinFromPretrained

\* The loader each slot passes down.
LoaderFor(s) ==
    CASE s \in {1, 2, 3} -> ModelMixinFromPretrained
      [] s = 4 -> LoraStateDict
      [] s = 5 -> LoadTextualInversion

\* The next slot check_and_prepare_models resolves after slot s (6: none left).
NextSlot(task, s) ==
    IF \E t \in Slots : t > s /\ SlotPresent(task, t)
    THEN CHOOSE t \in Slots :
             /\ t > s
             /\ SlotPresent(task, t)
             /\ \A u \in Slots : (u > s /\ SlotPresent(task, u)) => t <= u
    ELSE 6

----------------------------------------------------------------------------
(* Pure functions of the module *)

\* Mutant: a known scheme is enough, the host is not looked at.
ValidatorsUrl_SchemeOnly(id) == id[1] \in {"http", "https", "ftp"}

\* validators.url: a scheme it knows and a host.
ValidatorsUrl(id) == id[1] \in {"http", "https", "ftp"} /\ id[2] # ""

\* hashlib.sha256(model_name.encode('utf-8')).hexdigest(), on the identifiers
\* of the model: a fixed digest per string, no two alike.
Sha256Hex(id) ==
    CASE id = UrlA -> "sha256_of_UrlA"
      [] id = UrlB -> "sha256_of_UrlB"
      [] id = NameA -> "sha256_of_NameA"
      [] id = NoHost -> "sha256_of_NoHost"

\* Mutant: the directory is named by the digest alone, whatever the root.
ModelFolder_IgnoresRoot(root, id) == <<"", Sha256Hex(id)>>

\* os.path.join(external_cache_dir, url_hash)
ModelFolder(root, id) == <<root, Sha256Hex(id)>>

\* os.path.join(model_folder, "model.safetensors")
ModelFile(root, id) == Append(ModelFolder(root, id), "model.safetensors")

\* Mutant: only a policy of None gives None, the host is not looked at.
GetHfProxyDict_NoneOnly(proxy) ==
    IF proxy # None
    THEN <<"https", Host(proxy), Port(proxy), "http", Host(proxy), Port(proxy)>>
    ELSE None

\* get_hf_proxy_dict: {'https': host:port, 'http': host:port}, or None.
GetHfProxyDict(proxy) ==
    IF proxy # None /\ Host(proxy) # ""
    THEN <<"https", Host(proxy), Port(proxy), "http", Host(proxy), Port(proxy)>>
    ELSE None

\* urllib3.make_headers(proxy_basic_auth=username + ':' + password)
MakeHeaders(proxy) == <<"proxy-authorization", "Basic", Username(proxy), Password(proxy)>>

\* Mutant: the auth header is made as soon as there is a username.
HttpClient_AuthIfUsername(proxy) ==
    IF Host(proxy) # ""
    THEN <<"ProxyManager", Host(proxy), Port(proxy)>>
         \o (IF Username(proxy) # "" THEN MakeHeaders(proxy) ELSE None)
    ELSE <<"PoolManager">>

\* The client the URL fetcher builds from a policy that is not None:
\* ProxyManager(host:port, proxy_headers) or PoolManager().
DirectClient == <<"PoolManager">>
HttpClient(proxy) ==
    IF Host(proxy) # ""
    THEN <<"ProxyManager", Host(proxy), Port(proxy)>>
         \o (IF Username(proxy) # "" /\ Password(proxy) # ""
             THEN MakeHeaders(proxy)
             ELSE None)
    ELSE DirectClient

\* Mutant: the chunk is put in front of what the file holds.
WriteChunk_Prepend(content, pos, chunk) == chunk \o content

\* f_out.write(chunk) on a file opened "wb" by a writer that has written pos
\* bytes: the chunk goes at offset pos (a gap before it reads as zeros), and
\* what the file holds beyond the chunk stays.
WriteChunk(content, pos, chunk) ==
    LET end == pos + Len(chunk)
        new == IF Len(content) > end THEN Len(content) ELSE end
    IN  [i \in 1..new |->
            IF i > pos /\ i <= end THEN chunk[i - pos]
            ELSE IF i <= Len(content) THEN content[i]
            ELSE 0]

\* open(model_file, "wb"): created, or truncated when it exists.
OpenedForWrite(content) == <<>>

----------------------------------------------------------------------------
(* Inputs *)

Bodies == UNION {[1..n -> Bytes] : n \in 0..MaxBodyLen}

\* What the server behind an identifier may send: anything for UrlA, one
\* two-byte file for the others.
ServerBodies(id) == IF id = UrlA THEN Bodies ELSE {<<1, 1>>}

\* Response header content-length: absent, a number, or not a number.
ContentLengths == {"absent", "number", "garbage"}

\* The HTTP status of a response: the code never reads resp.status.
Statuses == {200, 404, 500}

\* The status the server behind an identifier may answer with: found or not
\* found for UrlA, an internal error for the others.
ServerStatuses(id) == IF id = UrlA THEN {200, 404} ELSE {500}

Kwargs(proxy) ==
    [hf_cache_dir |-> HfCacheDir, external_cache_dir |-> ExternalCacheDir, proxy |-> proxy]

BaseOnly(id) == TaskArgs(id, None, None, None, None)

\* One identifier, every proxy policy; every combination of slots present,
\* with a direct-client policy.
CallInputs ==
    {<<BaseOnly(id), Kwargs(px)>> : id \in {UrlA, NameA}, px \in Proxies}
    \cup {<<BaseOnly(id), Kwargs(ProxyNoHost)>> : id \in Idents}
    \cup {<<TaskArgs(UrlA, v, c, l, t), Kwargs(ProxyNoHost)>> :
            v \in {None, UrlA}, c \in {None, Wrapper(NameA)},
            l \in {None, Wrapper(UrlB)}, t \in {None, NameA}}

\* Every model file path of the external cache.
FilePaths == {ModelFile(ExternalCacheDir, id) : id \in Idents}

----------------------------------------------------------------------------
(* State of one invocation *)

\* Not running: never started, returned, raised to its caller, or killed.
Stopped == {"idle", "done", "raised", "crashed"}

\* Inside check_and_download_external_model.
InUrlFetcher == {"isdir", "isfile", "mkdir", "connect", "request", "open", "stream", "cleanup"}

Running == {"dispatch", "loader"} \cup InUrlFetcher

\* The local variables of the URL fetcher.  pos: the offset of f_out.
\* unlinked: the file f_out has open was removed from the directory, so that
\* what is written through f_out is in no file a path leads to.
NoLocals ==
    [model_name |-> None, client |-> None, content_length |-> "", pos |-> 0,
     unlinked |-> FALSE]

\* given: the task argument set as the caller passed it, before any slot was
\* written.
IdleProc ==
    [pc |-> "idle", task |-> BaseOnly(None), given |-> BaseOnly(None),
     kw |-> Kwargs(None), slot |-> 0,
     loc |-> NoLocals, exc |-> "", error |-> "", calls |-> <<>>]

\* One call of check_and_download_model_by_name, as the invocation records it:
\* the arguments the chosen fetcher got, what it did and what came back.
\* had_dir and had_file: whether the cache directory and the model file of
\* the identifier existed when the call began.  body and status: the response
\* body and the HTTP status of its GET, 0 while there is no response.
NewCall(s, fetcher, name, cache_dir, loader_fn, had_dir, had_file) ==
    [slot |-> s, fetcher |-> fetcher, model_name |-> name, cache_dir |-> cache_dir,
     loader_fn |-> loader_fn, had_dir |-> had_dir, had_file |-> had_file,
     http |-> 0, opens |-> 0, mkdirs |-> 0, loads |-> <<>>, body |-> <<>>,
     status |-> 0, fetched |-> None, result |-> None]

LastCall(r) == r.calls[Len(r.calls)]

\* The record r with field f of its current call set to v.
WithCall(r, f, v) == [r EXCEPT !.calls[Len(r.calls)] = [@ EXCEPT ![f] = v]]

\* model_folder and model_file of a call of the URL fetcher.
CallFolder(c) == ModelFolder(c.cache_dir, c.model_name)
CallFile(c) == ModelFile(c.cache_dir, c.model_name)

Folder(r) == ModelFolder(LastCall(r).cache_dir, r.loc.model_name)
File(r) == ModelFile(LastCall(r).cache_dir, r.loc.model_name)

\* check_and_download_model_by_name returns what the fetcher returned.
DispatchReturn(v) == v

\* The fetcher returns v: the dispatcher returns it, check_and_prepare_models
\* stores it in the slot and goes on to the next slot that is present.
Return(r, v) ==
    LET n == NextSlot(r.task, r.slot)
        c == [LastCall(r) EXCEPT !.fetched = v, !.result = DispatchReturn(v)]
    IN  [r EXCEPT !.task = SetSlot(r.task, r.slot, c.result),
                  !.calls[Len(r.calls)] = c,
                  !.slot = n,
                  !.loc = NoLocals,
                  !.pc = IF n = 6 THEN "done" ELSE "dispatch"]

\* Mutant: the error of a slot is kept and the pass goes on with the next
\* slot, to fail at its end.
Raise_AtEnd(r, e) ==
    LET n == NextSlot(r.task, r.slot)
    IN  [r EXCEPT !.error = e, !.loc = NoLocals, !.slot = n,
                  !.pc = IF n = 6 THEN "raised" ELSE "dispatch"]

\* Exception e leaves the fetcher: nothing up the stack catches it.
Raise(r, e) == [r EXCEPT !.pc = "raised", !.error = e, !.loc = NoLocals]

\* Exception e is raised inside the try block of the URL fetcher.
Caught(r, e) == [r EXCEPT !.pc = "cleanup", !.exc = e]

TypeOK ==
    /\ \A p \in Procs : proc[p].pc \in Stopped \cup Running
    /\ \A f \in FilePaths : files[f] = NoFile \/ files[f] \in Bodies
    /\ downloaded \subseteq Idents
    /\ \A p \in Procs : \A i \in 1..Len(proc[p].calls) :
          proc[p].calls[i].status \in Statuses \cup {0}

Init ==
    /\ proc = [p \in Procs |-> IdleProc]
    /\ dirs = {}
    /\ files = [f \in FilePaths |-> NoFile]
    /\ downloaded = {}

----------------------------------------------------------------------------
(* check_and_prepare_models and the dispatcher *)

\* A caller invokes check_and_prepare_models(task_args, **kwargs).
Start(p, task, kw) ==
    /\ proc[p].pc \in Stopped
    /\ proc' = [proc EXCEPT ![p] =
                  [IdleProc EXCEPT !.pc = "dispatch", !.task = task, !.given = task,
                                   !.kw = kw, !.slot = 1]]
    /\ UNCHANGED <<dirs, files, downloaded>>

\* check_and_download_model_by_name on the current slot: classify the
\* identifier and enter the fetcher chosen.
Dispatch(p) ==
    LET r == proc[p]
        id == SlotIdent(r.task, r.slot)
        had_dir == ModelFolder(r.kw.external_cache_dir, id) \in dirs
        had_file == files[ModelFile(r.kw.external_cache_dir, id)] # NoFile
    IN  /\ r.pc = "dispatch"
        /\ proc' = [proc EXCEPT ![p] =
              IF ValidatorsUrl(id)
              THEN [r EXCEPT !.pc = "isdir",
                             !.loc = [NoLocals EXCEPT !.model_name = id],
                             !.calls = Append(@, NewCall(r.slot, "external", id,
                                                  r.kw.external_cache_dir, LoaderFor(r.slot),
                                                  had_dir, had_file))]
              ELSE [r EXCEPT !.pc = "loader",
                             !.loc = [NoLocals EXCEPT !.model_name = id],
                             !.calls = Append(@, NewCall(r.slot, "hf", id,
                                                  r.kw.hf_cache_dir, LoaderFor(r.slot),
                                                  had_dir, had_file))]]
        /\ UNCHANGED <<dirs, files, downloaded>>

----------------------------------------------------------------------------
(* check_and_download_hf_model *)

\* Mutant: resume_download is left off.
CallArgs_NoResume(r) ==
    [proxy |-> GetHfProxyDict(r.kw.proxy), cache_dir |-> LastCall(r).cache_dir,
     torch_dtype |-> "torch.float16", resume_download |-> FALSE]

CallArgs(r) ==
    [proxy |-> GetHfProxyDict(r.kw.proxy), cache_dir |-> LastCall(r).cache_dir,
     torch_dtype |-> "torch.float16", resume_download |-> TRUE]

\* Mutant: a loader that raised is invoked a second time before the error
\* is let through.
Loader_Retry(p) ==
    LET r == proc[p]
        c == LastCall(r)
        call == [fn |-> c.loader_fn, name |-> r.loc.model_name, args |-> CallArgs(r)]
    IN  /\ r.pc = "loader"
        /\ \/ proc' = [proc EXCEPT ![p] =
                 Return(WithCall(r, "loads", Append(c.loads, call)), r.loc.model_name)]
           \/ proc' = [proc EXCEPT ![p] =
                 Raise(WithCall(r, "loads", c.loads \o <<call, call>>), "LoaderError")]
        /\ UNCHANGED <<dirs, files, downloaded>>

\* loader_fn(model_name, **call_args), then return model_name; the loader,
\* which owns the cache under cache_dir, returns or raises.
Loader(p) ==
    LET r == proc[p]
        c == LastCall(r)
        invoked == WithCall(r, "loads",
                     Append(c.loads, [fn |-> c.loader_fn, name |-> r.loc.model_name,
                                      args |-> CallArgs(r)]))
    IN  /\ r.pc = "loader"
        /\ \/ proc' = [proc EXCEPT ![p] = Return(invoked, r.loc.model_name)]
           \/ proc' = [proc EXCEPT ![p] = Raise(invoked, "LoaderError")]
        /\ UNCHANGED <<dirs, files, downloaded>>

----------------------------------------------------------------------------
(* check_and_download_external_model *)

\* What the fetcher returns on a cache hit, and after a download.
CacheHitReturn(r) == File(r)
DownloadReturn(r) == Folder(r)

\* Mutant: the directory test never succeeds, so mkdir is always called.
IsDirectory_Never(folder) == FALSE

\* Mutant: the file test looks at a path that is never a regular file.
IsRegularFile_WrongPath(content) == FALSE

\* os.path.isdir and os.path.isfile on the filesystem of the model.
IsDirectory(folder) == folder \in dirs
IsRegularFile(content) == content # NoFile

\* Whether int(total_bytes) raises on a content-length header: None is not
\* converted.
IntRaises(cl) == cl = "garbage"

\* os.path.isdir(model_folder)
IsDir(p) ==
    LET r == proc[p]
    IN  /\ r.pc = "isdir"
        /\ proc' = [proc EXCEPT ![p].pc = IF IsDirectory(Folder(r)) THEN "isfile" ELSE "mkdir"]
        /\ UNCHANGED <<dirs, files, downloaded>>

\* os.path.isfile(model_file): a cache hit returns at once.
IsFile(p) ==
    LET r == proc[p]
    IN  /\ r.pc = "isfile"
        /\ proc' = [proc EXCEPT ![p] =
              IF IsRegularFile(files[File(r)])
              THEN Return(r, CacheHitReturn(r))
              ELSE [r EXCEPT !.pc = "connect"]]
        /\ UNCHANGED <<dirs, files, downloaded>>

\* Mutant: a failure of mkdir is swallowed and the fetch goes on.
Mkdir_IgnoreFailure(p) ==
    LET r == proc[p]
        called == WithCall(r, "mkdirs", LastCall(r).mkdirs + 1)
    IN  /\ r.pc = "mkdir"
        /\ \/ /\ Folder(r) \notin dirs
              /\ dirs' = dirs \cup {Folder(r)}
           \/ UNCHANGED dirs
        /\ proc' = [proc EXCEPT ![p] = [called EXCEPT !.pc = "connect"]]
        /\ UNCHANGED <<files, downloaded>>

\* os.mkdir(model_folder, 0o755), outside the try block: it fails when the
\* directory exists by now, and may fail for the filesystem's own reasons.
Mkdir(p) ==
    LET r == proc[p]
        called == WithCall(r, "mkdirs", LastCall(r).mkdirs + 1)
    IN  /\ r.pc = "mkdir"
        /\ \/ /\ Folder(r) \notin dirs
              /\ dirs' = dirs \cup {Folder(r)}
              /\ proc' = [proc EXCEPT ![p] = [called EXCEPT !.pc = "connect"]]
           \/ /\ UNCHANGED dirs
              /\ proc' = [proc EXCEPT ![p] = Raise(called, "OSError")]
        /\ UNCHANGED <<files, downloaded>>

\* The client: proxy.host is read first, which a policy of None does not have.
Connect(p) ==
    LET r == proc[p]
    IN  /\ r.pc = "connect"
        /\ proc' = [proc EXCEPT ![p] =
              IF r.kw.proxy = None
              THEN Caught(r, "AttributeError")
              ELSE [r EXCEPT !.pc = "request", !.loc.client = HttpClient(r.kw.proxy)]]
        /\ UNCHANGED <<dirs, files, downloaded>>

\* Mutant: a response with an error status raises, as with
\* raise_for_status().
Request_RaiseForStatus(p) ==
    LET r == proc[p]
        sent == WithCall(r, "http", LastCall(r).http + 1)
    IN  /\ r.pc = "request"
        /\ \/ proc' = [proc EXCEPT ![p] = Caught(sent, "HTTPError")]
           \/ \E cl \in ContentLengths, b \in ServerBodies(r.loc.model_name),
                 st \in ServerStatuses(r.loc.model_name) :
                LET got == [WithCall(WithCall(sent, "body", b), "status", st)
                               EXCEPT !.loc.content_length = cl]
                IN  proc' = [proc EXCEPT ![p] =
                       IF st >= 400
                       THEN Caught(got, "HTTPError")
                       ELSE IF IntRaises(cl)
                       THEN Caught(got, "ValueError")
                       ELSE [got EXCEPT !.pc = "open"]]
        /\ UNCHANGED <<dirs, files, downloaded>>

\* http.request("GET", model_name, preload_content=False): a response of any
\* status, or a connection error; then the content-length header: int() of
\* a header that is no number raises.
Request(p) ==
    LET r == proc[p]
        sent == WithCall(r, "http", LastCall(r).http + 1)
    IN  /\ r.pc = "request"
        /\ \/ proc' = [proc EXCEPT ![p] = Caught(sent, "HTTPError")]
           \/ \E cl \in ContentLengths, b \in ServerBodies(r.loc.model_name),
                 st \in ServerStatuses(r.loc.model_name) :
                LET got == [WithCall(WithCall(sent, "body", b), "status", st)
                               EXCEPT !.loc.content_length = cl]
                IN  proc' = [proc EXCEPT ![p] =
                       IF IntRaises(cl)
                       THEN Caught(got, "ValueError")
                       ELSE [got EXCEPT !.pc = "open"]]
        /\ UNCHANGED <<dirs, files, downloaded>>

\* Mutant: the file is opened under an exclusive lock; an invocation waits
\* while another one has it open.
Open_Exclusive(p) ==
    LET r == proc[p]
        opened == WithCall(r, "opens", LastCall(r).opens + 1)
    IN  /\ r.pc = "open"
        /\ \A q \in Procs \ {p} : ~(proc[q].pc = "stream" /\ File(proc[q]) = File(r))
        /\ \/ /\ files' = [files EXCEPT ![File(r)] = OpenedForWrite(@)]
              /\ proc' = [proc EXCEPT ![p] = [opened EXCEPT !.pc = "stream"]]
           \/ /\ UNCHANGED files
              /\ proc' = [proc EXCEPT ![p] = Caught(opened, "OSError")]
        /\ UNCHANGED <<dirs, downloaded>>

\* open(model_file, "wb")
Open(p) ==
    LET r == proc[p]
        opened == WithCall(r, "opens", LastCall(r).opens + 1)
    IN  /\ r.pc = "open"
        /\ \/ /\ files' = [files EXCEPT ![File(r)] = OpenedForWrite(@)]
              /\ proc' = [proc EXCEPT ![p] = [opened EXCEPT !.pc = "stream"]]
           \/ /\ UNCHANGED files
              /\ proc' = [proc EXCEPT ![p] = Caught(opened, "OSError")]
        /\ UNCHANGED <<dirs, downloaded>>

\* One turn of `for chunk in resp.stream(1024)`: the next chunk, of at most
\* ChunkSize bytes, is written if it is not empty.
StreamChunk(p) ==
    LET r == proc[p]
        body == LastCall(r).body
    IN  /\ r.pc = "stream"
        /\ r.loc.pos < Len(body)
        /\ \E k \in 0..Min(ChunkSize, Len(body) - r.loc.pos) :
             LET chunk == SubSeq(body, r.loc.pos + 1, r.loc.pos + k)
             IN  /\ files' = IF chunk # <<>> /\ ~r.loc.unlinked
                             THEN [files EXCEPT ![File(r)] = WriteChunk(@, r.loc.pos, chunk)]
                             ELSE files
                 /\ proc' = [proc EXCEPT ![p].loc.pos = @ + k]
        /\ UNCHANGED <<dirs, downloaded>>

\* The connection breaks while the body is read.
StreamFail(p) ==
    LET r == proc[p]
    IN  /\ r.pc = "stream"
        /\ proc' = [proc EXCEPT ![p] = Caught(r, "ProtocolError")]
        /\ UNCHANGED <<dirs, files, downloaded>>

\* The body is exhausted: f_out.flush(), the file is closed, return model_folder.
StreamEnd(p) ==
    LET r == proc[p]
    IN  /\ r.pc = "stream"
        /\ r.loc.pos = Len(LastCall(r).body)
        /\ proc' = [proc EXCEPT ![p] = Return(r, DownloadReturn(r))]
        /\ downloaded' = downloaded \cup {r.loc.model_name}
        /\ UNCHANGED <<dirs, files>>

\* Mutant: the except block leaves the file where it is.
Removed_Kept(content) == content

\* What os.remove(model_file) leaves at model_file.
Removed(content) == NoFile

\* except Exception as e: remove the broken file, raise e.  An invocation
\* that has the removed file open goes on writing to it, unlinked.
Cleanup(p) ==
    LET r == proc[p]
        after == IF IsRegularFile(files[File(r)]) THEN Removed(files[File(r)])
                 ELSE files[File(r)]
        gone == files[File(r)] # NoFile /\ after = NoFile
    IN  /\ r.pc = "cleanup"
        /\ files' = [files EXCEPT ![File(r)] = after]
        /\ proc' = [q \in Procs |->
              IF q = p THEN Raise(r, r.exc)
              ELSE IF gone /\ proc[q].pc = "stream" /\ File(proc[q]) = File(r)
                   THEN [proc[q] EXCEPT !.loc.unlinked = TRUE]
                   ELSE proc[q]]
        /\ UNCHANGED <<dirs, downloaded>>

\* The process is killed (SIGKILL, power loss): no handler runs, and the
\* filesystem stays as the last system call left it.
Crash(p) ==
    /\ proc[p].pc \in Running
    /\ proc' = [proc EXCEPT ![p].pc = "crashed", ![p].loc = NoLocals]
    /\ UNCHANGED <<dirs, files, downloaded>>

----------------------------------------------------------------------------
(* Specification: the single-threaded program, one invocation at a time *)

Step(p) ==
    \/ Dispatch(p)
    \/ Loader(p)
    \/ IsDir(p)
    \/ IsFile(p)
    \/ Mkdir(p)
    \/ Connect(p)
    \/ Request(p)
    \/ Open(p)
    \/ StreamChunk(p)
    \/ StreamFail(p)
    \/ StreamEnd(p)
    \/ Cleanup(p)
    \/ Crash(p)

Next ==
    \E p \in SeqProcs :
        \/ \E in \in CallInputs : Start(p, in[1], in[2])
        \/ Step(p)

Spec == Init /\ [][Next]_vars

----------------------------------------------------------------------------
(* Specification: two invocations of the URL fetcher on the same URL and
   cache root, their system calls interleaved *)

RaceInput == <<BaseOnly(UrlB), Kwargs(ProxyNoHost)>>

RaceStep(p) ==
    \/ Dispatch(p)
    \/ IsDir(p)
    \/ IsFile(p)
    \/ Mkdir(p)
    \/ Connect(p)
    \/ Request(p)
    \/ Open(p)
    \/ StreamChunk(p)
    \/ StreamFail(p)
    \/ StreamEnd(p)
    \/ Cleanup(p)
    \/ Crash(p)

RaceNext ==
    \E p \in Procs :
        \/ Start(p, RaceInput[1], RaceInput[2])
        \/ RaceStep(p)

SpecRace == Init /\ [][RaceNext]_vars

----------------------------------------------------------------------------
(* Vocabulary of the properties *)

\* The identifiers that are URLs, and those that are names.
UrlIdents == {UrlA, UrlB}
NameIdents == {NameA, NoHost}

\* Every call of check_and_download_model_by_name an invocation has made in
\* its current pass, as <<p, i>>.
CallIds == {<<p, i>> \in Procs \X (1..5) : i <= Len(proc[p].calls)}
CallOf(x) == proc[x[1]].calls[x[2]]

\* Calls of the URL fetcher, and those among them that downloaded and returned.
IsExternal(c) == c.fetcher = "external"
Returned(c) == c.fetched # None
ReturnedDownload(c) == IsExternal(c) /\ Returned(c) /\ c.opens > 0
ReturnedHit(c) == IsExternal(c) /\ Returned(c) /\ c.http = 0

NoFetchExecuting == \A p \in Procs : proc[p].pc \in Stopped

----------------------------------------------------------------------------
(* C1 *)

\* C1: every return of the URL fetcher, after a download and on a cache hit
\* alike, is the cache directory <externalCacheDir>/<sha256-hex(identifier)>,
\* never the path of the artifact file.
C1_ReturnsCacheDirectory ==
    \A x \in CallIds :
        LET c == CallOf(x)
        IN  (IsExternal(c) /\ Returned(c)) =>
                /\ c.fetched = <<ExternalCacheDir, Sha256Hex(c.model_name)>>
                /\ c.fetched # CallFile(c)

----------------------------------------------------------------------------
(* C2 *)

\* A step in which no call for identifier u does more I/O: a call that goes
\* on has the counts it had, and a call that begins has none.
NoFetchStep(u) ==
    \A p \in Procs :
        \A i \in 1..Len(proc'[p].calls) :
            LET c2 == proc'[p].calls[i]
            IN  (IsExternal(c2) /\ c2.model_name = u) =>
                    IF i <= Len(proc[p].calls)
                    THEN LET c1 == proc[p].calls[i]
                         IN  /\ c2.http = c1.http
                             /\ c2.opens = c1.opens
                             /\ c2.mkdirs = c1.mkdirs
                    ELSE c2.http = 0 /\ c2.opens = 0 /\ c2.mkdirs = 0

\* C2: once a call has completed a download of an identifier, no later step
\* of any call for that identifier issues an HTTP request, opens the
\* artifact file for writing or creates a directory.
C2_FetchedAtMostOnce == [][\A u \in downloaded : NoFetchStep(u)]_vars

\* A second call for a downloaded identifier has returned, without I/O.
C2_Witness ==
    \E x \in CallIds :
        LET c == CallOf(x)
        IN  /\ ReturnedHit(c)
            /\ c.model_name \in downloaded
            /\ c.opens = 0 /\ c.mkdirs = 0

----------------------------------------------------------------------------
(* C3 *)

\* C3: when an exception raised in the try block (connect, request, open,
\* stream) reaches the caller, there is no file at model_file, the cache
\* directory exists, and the error is the one that was raised.
C3_FailureLeavesNoFile ==
    \A p \in SeqProcs :
        LET r == proc[p]
        IN  (r.pc = "raised" /\ r.exc # "") =>
                /\ files[CallFile(LastCall(r))] = NoFile
                /\ CallFolder(LastCall(r)) \in dirs
                /\ r.error = r.exc

\* The stream broke after the file was opened, and the error has propagated.
C3_Witness ==
    \E p \in SeqProcs :
        /\ proc[p].pc = "raised"
        /\ proc[p].exc = "ProtocolError"
        /\ LastCall(proc[p]).opens = 1
        /\ Len(LastCall(proc[p]).body) > 0

----------------------------------------------------------------------------
(* C4 *)

\* C4: whenever no fetch is executing, also after a process was killed in
\* the middle of streaming, every model file is absent or holds the complete
\* response body of the download that wrote it.
C4_CrashSafe ==
    NoFetchExecuting =>
        \A x \in CallIds :
            LET c == CallOf(x)
            IN  (IsExternal(c) /\ c.opens > 0) =>
                    files[CallFile(c)] \in {NoFile, c.body}

----------------------------------------------------------------------------
(* C5 *)

\* C5: with a proxy policy of None the URL fetcher uses a direct client, as
\* with an empty host, and does not fail for the missing policy.
C5_NoneProxyIsDirect ==
    \A p \in Procs :
        LET r == proc[p]
        IN  r.kw.proxy = None =>
                /\ r.exc # "AttributeError"
                /\ r.pc = "request" => r.loc.client = DirectClient

----------------------------------------------------------------------------
(* C6 *)

\* C6: a call that begins with the cache directory present and the model
\* file absent is no cache hit and never calls mkdir; once it returns it has
\* issued one GET and opened the file once, and the file holds exactly the
\* body of that GET; while it streams, the file holds the bytes streamed so
\* far, from byte zero.
C6_RetryRestartsFromZero ==
    \A p \in SeqProcs :
        \A i \in 1..Len(proc[p].calls) :
            LET r == proc[p]
                c == r.calls[i]
            IN  (IsExternal(c) /\ c.had_dir /\ ~c.had_file) =>
                    /\ c.mkdirs = 0
                    /\ ~ReturnedHit(c)
                    /\ Returned(c) =>
                          /\ c.http = 1 /\ c.opens = 1
                          /\ c.fetched = CallFolder(c)
                          /\ files[CallFile(c)] = c.body
                    /\ (i = Len(r.calls) /\ r.pc = "stream") =>
                          files[CallFile(c)] = SubSeq(c.body, 1, r.loc.pos)

\* A retry in an existing, empty cache directory has downloaded two bytes.
C6_Witness ==
    \E x \in CallIds :
        LET c == CallOf(x)
        IN  /\ IsExternal(c) /\ c.had_dir /\ ~c.had_file
            /\ Returned(c)
            /\ Len(c.body) = 2

----------------------------------------------------------------------------
(* C7 *)

\* C7: when the URL fetcher returns after a download, model_file holds
\* exactly the bytes of the non-empty chunks streamed, in order, which are
\* the response body; and int() of the content-length header raises only
\* for a header that is present.
C7_FileIsStreamedBody ==
    /\ \A x \in CallIds :
          ReturnedDownload(CallOf(x)) => files[CallFile(CallOf(x))] = CallOf(x).body
    /\ \A p \in SeqProcs :
          /\ (proc[p].pc = "cleanup" /\ proc[p].exc = "ValueError") =>
                proc[p].loc.content_length = "garbage"
          /\ (proc[p].pc = "stream" /\ LastCall(proc[p]).opens = 1) =>
                files[File(proc[p])] = SubSeq(LastCall(proc[p]).body, 1, proc[p].loc.pos)

\* A body of two different bytes was streamed with no content-length
\* header, and the fetcher is about to return.
C7_Witness ==
    \E p \in SeqProcs :
        /\ proc[p].pc = "stream"
        /\ proc[p].loc.content_length = "absent"
        /\ LastCall(proc[p]).body = <<0, 1>>
        /\ proc[p].loc.pos = 2

----------------------------------------------------------------------------
(* C8 *)

\* C8: each call of check_and_download_model_by_name runs one fetcher: the
\* URL fetcher, with external_cache_dir and no loader invocation, for a URL;
\* the named fetcher, with the loader and hf_cache_dir and no HTTP request,
\* no file opened and no directory made, for anything else.  Its result is
\* the fetcher's, and nothing of a name ever exists in the external cache.
C8_DispatchesToOneFetcher ==
    /\ \A x \in CallIds :
          LET c == CallOf(x)
          IN  /\ c.model_name \in UrlIdents =>
                    /\ c.fetcher = "external"
                    /\ c.cache_dir = ExternalCacheDir
                    /\ c.loads = <<>>
              /\ c.model_name \in NameIdents =>
                    /\ c.fetcher = "hf"
                    /\ c.cache_dir = HfCacheDir
                    /\ c.http = 0 /\ c.opens = 0 /\ c.mkdirs = 0
                    /\ Len(c.loads) <= 1
              /\ c.result = c.fetched
    /\ \A id \in NameIdents :
          /\ ModelFolder(ExternalCacheDir, id) \notin dirs
          /\ files[ModelFile(ExternalCacheDir, id)] = NoFile

\* One pass has resolved a URL through the URL fetcher and a name through
\* the named fetcher.
C8_Witness ==
    \E x, y \in CallIds :
        /\ x[1] = y[1]
        /\ CallOf(x).fetcher = "external" /\ Returned(CallOf(x))
        /\ CallOf(y).fetcher = "hf" /\ Returned(CallOf(y))

----------------------------------------------------------------------------
(* C9 *)

\* The proxy map of a policy.
ExpectedProxyMap(proxy) ==
    IF proxy \in {None, ProxyNoHost}
    THEN None
    ELSE <<"https", "proxy.local", "8080", "http", "proxy.local", "8080">>

\* C9: the named fetcher, once it has returned, has invoked the loader it
\* was given exactly once, with the identifier, cache_dir = hf_cache_dir,
\* resume_download = true, the half-precision hint and the proxy map of the
\* policy, and has returned the identifier unchanged.
C9_LoaderInvokedOnce ==
    \A x \in CallIds :
        LET c == CallOf(x)
        IN  (c.fetcher = "hf" /\ Returned(c)) =>
                /\ c.loads = <<[fn |-> c.loader_fn, name |-> c.model_name,
                               args |-> [proxy |-> ExpectedProxyMap(proc[x[1]].kw.proxy),
                                         cache_dir |-> HfCacheDir,
                                         torch_dtype |-> "torch.float16",
                                         resume_download |-> TRUE]]>>
                /\ c.fetched = c.model_name

\* A name was resolved through a proxy with credentials.
C9_Witness ==
    \E x \in CallIds :
        /\ CallOf(x).fetcher = "hf" /\ Returned(CallOf(x))
        /\ proc[x[1]].kw.proxy = ProxyAuth

----------------------------------------------------------------------------
(* C10 *)

\* The loader check_and_prepare_models is to use for a slot.
ExpectedLoader(s) ==
    IF s \in {1, 2, 3} THEN "ModelMixin.from_pretrained"
    ELSE IF s = 4 THEN "LoraLoaderMixin.lora_state_dict"
    ELSE "load_textual_inversion_state_dicts"

\* C10: the calls of one pass are for slots in the order base model, VAE,
\* ControlNet, LoRA, textual inversion, one at a time, each for a slot that
\* is present and with the loader of that slot; the base slot comes first;
\* a pass that has returned has resolved every present slot exactly once and
\* no absent one, so a task with only base_model has exactly one call.
C10_SlotsInOrder ==
    \A p \in SeqProcs :
        LET r == proc[p]
            n == Len(r.calls)
        IN  /\ \A i \in 1..n :
                  /\ SlotField(r.task, r.calls[i].slot) # None
                  /\ r.calls[i].loader_fn = ExpectedLoader(r.calls[i].slot)
                  /\ i < n => Returned(r.calls[i])
                  /\ \A j \in 1..n : i < j => r.calls[i].slot < r.calls[j].slot
            /\ n > 0 => r.calls[1].slot = 1
            /\ r.pc = "done" =>
                  {r.calls[i].slot : i \in 1..n} = {s \in Slots : SlotField(r.task, s) # None}
            /\ (r.pc = "done" /\ \A s \in 2..5 : SlotField(r.task, s) = None) => n = 1

\* A pass over a task with all five slots has returned.
C10_Witness ==
    \E p \in SeqProcs :
        /\ proc[p].pc = "done"
        /\ Len(proc[p].calls) = 5

\* A pass over a task with only base_model has returned.
C10_WitnessBaseOnly ==
    \E p \in SeqProcs :
        /\ proc[p].pc = "done"
        /\ \A s \in 2..5 : SlotField(proc[p].task, s) = None

----------------------------------------------------------------------------
(* C11 *)

\* C11: when a pass has failed, the failing call is the last one made and
\* every call before it returned; each slot resolved before holds what its
\* call returned, and the failing slot and every slot after it hold what
\* the caller passed; no call was made for a later slot.
C11_FirstErrorAborts ==
    \A p \in SeqProcs :
        LET r == proc[p]
            n == Len(r.calls)
            k == r.calls[n].slot
        IN  r.pc = "raised" =>
                /\ n > 0 /\ r.error # ""
                /\ ~Returned(r.calls[n])
                /\ \A i \in 1..(n - 1) :
                      /\ Returned(r.calls[i])
                      /\ r.calls[i].slot < k
                      /\ SlotIdent(r.task, r.calls[i].slot) = r.calls[i].result
                /\ \A s \in Slots :
                      /\ s >= k => SlotField(r.task, s) = SlotField(r.given, s)
                      /\ (s < k /\ SlotField(r.given, s) # None) =>
                            \E i \in 1..(n - 1) : r.calls[i].slot = s

\* The LoRA slot failed after two slots were resolved, one of them to a
\* path, with a textual inversion still to come.
C11_Witness ==
    \E p \in SeqProcs :
        LET r == proc[p]
        IN  /\ r.pc = "raised"
            /\ Len(r.calls) >= 3
            /\ LastCall(r).slot = 4
            /\ r.task.base_model # r.given.base_model
            /\ r.given.textual_inversion # None

----------------------------------------------------------------------------
(* C12 *)

\* C12: a step in which the named fetcher fails is one in which the loader
\* was invoked once and raised: the caller gets the loader's error, no value
\* is returned and no slot written, and no directory or file of the cache
\* changes.
C12_LoaderErrorUnmodified ==
    [][\A p \in SeqProcs :
          (proc[p].pc = "loader" /\ proc'[p].pc = "raised") =>
              LET c == LastCall(proc'[p])
              IN  /\ proc'[p].error = "LoaderError"
                  /\ Len(c.loads) = 1
                  /\ ~Returned(c) /\ c.result = None
                  /\ proc'[p].task = proc[p].task
                  /\ c.http = 0 /\ c.opens = 0 /\ c.mkdirs = 0
                  /\ dirs' = dirs /\ files' = files]_vars

\* The loader raised for the ControlNet name, after the base model had been
\* downloaded into the cache.
C12_Witness ==
    \E p \in SeqProcs :
        /\ proc[p].pc = "raised"
        /\ LastCall(proc[p]).fetcher = "hf"
        /\ LastCall(proc[p]).slot = 3
        /\ files[ModelFile(ExternalCacheDir, UrlA)] # NoFile

----------------------------------------------------------------------------
(* C13 *)

\* The basic-auth header of a client, if it has one.
AuthHeader(client) == SubSeq(client, 4, Len(client))

\* C13: the client the URL fetcher is about to send the request with is a
\* direct one for an empty proxy host, and for a host that is not empty a
\* proxying one for host:port, with the basic-auth header of
\* username:password if and only if neither username nor password is empty.
C13_ClientSelection ==
    \A p \in SeqProcs :
        LET px == proc[p].kw.proxy
            cl == proc[p].loc.client
        IN  proc[p].pc = "request" =>
                /\ px[1] = "" => cl = <<"PoolManager">>
                /\ px[1] # "" =>
                      /\ SubSeq(cl, 1, 3) = <<"ProxyManager", px[1], px[2]>>
                      /\ IF px[3] # "" /\ px[4] # ""
                         THEN AuthHeader(cl) = <<"proxy-authorization", "Basic", px[3], px[4]>>
                         ELSE AuthHeader(cl) = None

\* A client was built for a proxy with a username and no password.
C13_Witness ==
    \E p \in SeqProcs :
        /\ proc[p].pc = "request"
        /\ proc[p].kw.proxy = ProxyUserOnly

----------------------------------------------------------------------------
(* C14 *)

\* C14: the proxy argument every loader invocation got from
\* get_hf_proxy_dict is None exactly when the policy is None or its host is
\* empty, and otherwise the map of https and http to host:port, whatever the
\* username and password; and a named fetch that is over, returned or
\* failed, did reach the loader, so the resolver did not fail.
C14_HfProxyDict ==
    \A x \in CallIds :
        LET c == CallOf(x)
            px == proc[x[1]].kw.proxy
            off == px = None \/ px[1] = ""
        IN  c.fetcher = "hf" =>
                /\ \A i \in 1..Len(c.loads) :
                      LET m == c.loads[i].args.proxy
                      IN  /\ (m = None) <=> off
                          /\ ~off => m = <<"https", px[1], px[2], "http", px[1], px[2]>>
                /\ (Returned(c) \/ proc[x[1]].pc = "raised") => Len(c.loads) >= 1

\* A name was loaded through a proxy that has a password and no username.
C14_Witness ==
    \E x \in CallIds :
        /\ CallOf(x).fetcher = "hf"
        /\ Len(CallOf(x).loads) = 1
        /\ proc[x[1]].kw.proxy = ProxyPassOnly

\* A name was loaded with a policy of None.
C14_WitnessNone ==
    \E x \in CallIds :
        /\ CallOf(x).fetcher = "hf"
        /\ Len(CallOf(x).loads) = 1
        /\ proc[x[1]].kw.proxy = None

----------------------------------------------------------------------------
(* C15 *)

\* The directory of a URL under the cache root of the model, written out.
ExpectedFolder(id) ==
    CASE id = UrlA -> <<"external_cache", "sha256_of_UrlA">>
      [] id = UrlB -> <<"external_cache", "sha256_of_UrlB">>

ExpectedFile(id) == ExpectedFolder(id) \o <<"model.safetensors">>

\* C15: in every step of the sequential program, no directory goes away; a
\* directory that appears is the one directory of the URL being fetched,
\* made by the single mkdir of a call that began without it; a file that
\* changes is the one file of the URL being fetched; what a fetch returns
\* lies in the directory of its URL; and a call that began with the
\* directory present has called mkdir zero times.
C15_OneDirectoryPerUrl ==
    [][/\ dirs \subseteq dirs'
       /\ dirs' = dirs \/ \A d \in dirs' \ dirs :
             \E p \in SeqProcs :
                /\ proc[p].pc = "mkdir"
                /\ d = ExpectedFolder(proc[p].loc.model_name)
                /\ ~LastCall(proc[p]).had_dir
                /\ LastCall(proc[p]).mkdirs = 0
                /\ LastCall(proc'[p]).mkdirs = 1
       /\ files' = files \/ \A f \in FilePaths :
             files'[f] # files[f] =>
                \E p \in SeqProcs :
                   /\ proc[p].pc \in {"open", "stream", "cleanup"}
                   /\ f = ExpectedFile(proc[p].loc.model_name)
       /\ \A p \in SeqProcs : \A i \in 1..Len(proc[p].calls) :
             LET c == proc[p].calls[i]
             IN  IsExternal(c) =>
                    /\ c.had_dir => c.mkdirs = 0
                    /\ c.mkdirs <= 1
                    /\ Returned(c) =>
                          c.fetched \in {ExpectedFolder(c.model_name),
                                         ExpectedFile(c.model_name)}]_vars

\* A call found the directory of its URL present, with no file in it, and
\* is about to open the file there.
C15_Witness ==
    \E p \in SeqProcs :
        /\ proc[p].pc = "open"
        /\ LastCall(proc[p]).had_dir
        /\ LastCall(proc[p]).mkdirs = 0
        /\ ExpectedFolder(proc[p].loc.model_name) \in dirs

----------------------------------------------------------------------------
(* C16 *)

\* C16: a step of a fetcher at os.mkdir after which the directory is still
\* not there is a failed mkdir: the invocation has stopped with that OSError
\* as its error, having called mkdir once, issued no GET and opened no file,
\* and every directory and file is as it was when the call began, which the
\* call recorded as neither directory nor file present.
C16_MkdirFailurePropagates ==
    [][\A p \in SeqProcs :
          (/\ proc[p].pc = "mkdir"
           /\ proc'[p] # proc[p]
           /\ proc'[p].pc # "crashed"
           /\ Folder(proc[p]) \notin dirs') =>
              /\ proc'[p].pc = "raised"
              /\ proc'[p].error = "OSError"
              /\ LastCall(proc'[p]).mkdirs = 1
              /\ LastCall(proc'[p]).http = 0
              /\ LastCall(proc'[p]).opens = 0
              /\ ~Returned(LastCall(proc'[p]))
              /\ proc'[p].task = proc[p].task
              /\ dirs' = dirs /\ files' = files
              /\ ~LastCall(proc[p]).had_dir /\ ~LastCall(proc[p]).had_file
              /\ files[File(proc[p])] = NoFile]_vars

\* mkdir failed on the second model of a task whose base model was
\* resolved: the invocation stopped with the directory of that model absent.
C16_Witness ==
    \E p \in SeqProcs :
        LET r == proc[p]
        IN  /\ r.pc = "raised" /\ r.error = "OSError"
            /\ Len(r.calls) = 2
            /\ LastCall(r).mkdirs = 1 /\ LastCall(r).http = 0
            /\ CallFolder(LastCall(r)) \notin dirs

----------------------------------------------------------------------------
(* C17 *)

\* Invocation q is writing the file at path f and is not through: it has f
\* open, has not failed, was not killed, and the file does not hold the
\* whole body yet.
WritingPartial(q, f) ==
    /\ proc[q].pc = "stream"
    /\ File(proc[q]) = f
    /\ ~proc[q].loc.unlinked
    /\ proc[q].loc.pos < Len(LastCall(proc[q]).body)
    /\ files[f] # LastCall(proc[q]).body

\* C17: no step in which an invocation finds model.safetensors present and
\* returns a cache hit is taken while another invocation, running normally,
\* is still writing that file.
C17_NoHitWhileWriterRuns ==
    [][\A p \in Procs :
          (/\ proc[p].pc = "isfile"
           /\ proc'[p].pc = "done"
           /\ ReturnedHit(LastCall(proc'[p]))) =>
              \A q \in Procs \ {p} : ~WritingPartial(q, File(proc[p]))]_vars

----------------------------------------------------------------------------
(* C18 *)

\* C18: nothing makes an invocation wait for another: whatever the other
\* invocation is doing, one that is at a cache test can take it, and one
\* that is about to open model.safetensors can open it and start writing.
C18_NoLock ==
    \A p \in Procs :
        /\ proc[p].pc = "isdir" => ENABLED IsDir(p)
        /\ proc[p].pc = "isfile" => ENABLED IsFile(p)
        /\ proc[p].pc = "open" => ENABLED (Open(p) /\ proc'[p].pc = "stream")

\* Both invocations found no file at the cache test and both have the same
\* model.safetensors open for writing.
C18_Witness ==
    /\ \A p \in Procs :
          /\ proc[p].pc = "stream"
          /\ ~proc[p].loc.unlinked
          /\ ~LastCall(proc[p]).had_file
          /\ LastCall(proc[p]).opens = 1
    /\ File(proc[1]) = File(proc[2])
    /\ files[File(proc[1])] # NoFile

----------------------------------------------------------------------------
(* C19 *)

\* C19: in the current pass of either invocation, every URL fetch that
\* returned a directory after a download finds model.safetensors in that
\* directory, at the return and at any time after it, whatever the other
\* invocation does.
C19_ArtifactStays ==
    \A x \in CallIds :
        LET c == CallOf(x)
        IN  ReturnedDownload(c) => files[CallFile(c)] # NoFile

----------------------------------------------------------------------------
(* C20 *)

\* C20: whatever the status of the response, 404 and 500 included: a fetch
\* that got a response fails only for a bad content-length header, a failed
\* open or a broken stream, never for the status; a fetch that returned
\* after its download returned the directory, with model.safetensors
\* holding the body of that response; and every later call of the pass for
\* the same identifier began with the file present, issued no GET, opened
\* nothing and, once returned, is a cache hit on that file.
C20_StatusIsIgnored ==
    \A p \in SeqProcs :
        \A i \in 1..Len(proc[p].calls) :
            LET r == proc[p]
                c == r.calls[i]
            IN  (IsExternal(c) /\ c.status # 0) =>
                    /\ (i = Len(r.calls) /\ r.pc = "cleanup") =>
                          r.exc \in {"ValueError", "OSError", "ProtocolError"}
                    /\ (i = Len(r.calls) /\ r.pc = "raised") =>
                          r.error \in {"ValueError", "OSError", "ProtocolError"}
                    /\ ReturnedDownload(c) =>
                          /\ c.fetched = <<"external_cache", Sha256Hex(c.model_name)>>
                          /\ files[CallFile(c)] = c.body
                          /\ \A j \in (i + 1)..Len(r.calls) :
                                LET d == r.calls[j]
                                IN  d.model_name = c.model_name =>
                                       /\ d.had_file
                                       /\ d.http = 0 /\ d.opens = 0 /\ d.mkdirs = 0
                                       /\ Returned(d) => d.fetched = CallFile(c)

\* The server answered 404 with a two-byte body: the fetch returned its
\* directory, and the next call of the pass for the same URL was a cache hit.
C20_Witness ==
    \E p \in SeqProcs :
        /\ Len(proc[p].calls) >= 2
        /\ proc[p].calls[1].status = 404
        /\ Len(proc[p].calls[1].body) = 2
        /\ ReturnedDownload(proc[p].calls[1])
        /\ proc[p].calls[2].model_name = proc[p].calls[1].model_name
        /\ ReturnedHit(proc[p].calls[2])

\* The server answered 500: the fetch returned its directory, with the body
\* of the answer in model.safetensors.
C20_Witness500 ==
    \E x \in CallIds :
        /\ CallOf(x).status = 500
        /\ ReturnedDownload(CallOf(x))
        /\ files[CallFile(CallOf(x))] = CallOf(x).body

====
